---- MODULE Spec2Model ----
(***************************************************************************)
(* Model of neurons/form/form.py: HtmlForm's render-tree walk.             *)
(*                                                                         *)
(* complex_model_to_parent, _push_to_parent and _pull_to_parent are        *)
(* generator coroutines.  The model is an abstract machine for them: stk   *)
(* is the chain of live generator frames (root first), ctl says which      *)
(* frame has control and why (running, being sent a value, being thrown a  *)
(* Break, being returned to, ...), and parent is the streaming writer:     *)
(* the log of element opens / closes / writes the code asked for and the   *)
(* stack of elements currently open.                                       *)
(*                                                                         *)
(* A schema is a sequence of classes, a class a sequence of field records  *)
(* (get_flat_type_info).  All instances of a class look alike: the value   *)
(* of a field in a non-None instance is the field's val ("none", "obj",    *)
(* "list" of len objects, or "push" for a PushBase); every field of a None *)
(* instance reads None (getattr(inst, k, None)).                           *)
(*                                                                         *)
(* Ordering of sort keys is Python 2's, the language form.py is written    *)
(* for: None sorts before every tuple and every number.                    *)
(***************************************************************************)
EXTENDS Integers, Sequences, FiniteSets, TLC

VARIABLES fti,        \* the schema: fti[c] is class c's flat type info
          root_inst,  \* the instance handed to the root: "obj" or "none"
          kw_kept,    \* whether the library's to_parent hands from_arr on to the handler's kwargs
          stk,        \* live generator frames, root first
          ctl,        \* who has control
          parent,     \* the writer: [out, stack, next]
          calls,      \* frames created so far
          sent        \* values the driver has sent so far

vars == <<fti, root_inst, kw_kept, stk, ctl, parent, calls, sent>>

\* ------------------------------------------------------------------ bounds

MaxFields == 3      \* fields of the annotated class of the grouping schemas
MaxLen == 2         \* longest in-memory list of a pull array
MaxSends == 3       \* values the driver pushes before it stops
MaxDepth == 5       \* deepest chain of frames explored

\* ------------------------------------------------------------------ names

\* Field names by rank: sorting by k is sorting by rank.
FName == <<"a", "b", "c", "d", "e">>

\* cls.get_type_name()
TypeName == <<"R", "K", "E">>

\* The name of the field of rank k, character by character.  Rank 0 is a field
\* called like the type K (upper case sorts before lower case); rank 6 is a
\* field whose name holds two underscores (it sorts after "e").
FieldName(k) ==
    IF k = 0 THEN <<"K">>
    ELSE IF k = 6 THEN <<"e", "_", "_", "e">>
    ELSE <<FName[k]>>

hier_delim == "."

Digit == <<"0", "1", "2", "3", "4", "5", "6", "7", "8", "9">>

RECURSIVE Pow10(_)
Pow10(n) == IF n = 0 THEN 1 ELSE 10 * Pow10(n - 1)

\* w decimal digits of n >= 0, zero padded
Digits(n, w) == [j \in 1..w |-> Digit[((n \div Pow10(w - j)) % 10) + 1]]

\* '%09d' % i
Fmt09d(i) == IF i < 0 THEN <<"-">> \o Digits(-i, 8) ELSE Digits(i, 9)

RECURSIVE selsafe(_)
selsafe(s) ==
    IF s = <<>> THEN <<>>
    ELSE LET h == Head(s)
             t == selsafe(Tail(s))
         IN  IF h = "[" \/ h = "]" THEN t
             ELSE IF h = "." THEN <<"_", "_">> \o t
             ELSE <<h>> \o t

\* the index written with '%d', unpadded
ElemKey_unpadded(key, i) == key \o <<"[">> \o Digits(i, 1) \o <<"]">>

\* '%s[%09d]' % (key, i)
ElemKey(key, i) == key \o <<"[">> \o Fmt09d(i) \o <<"]">>

\* lines 550-553
ChildKey(name, k) == IF name # <<>> THEN name \o <<hier_delim>> \o k ELSE k

\* _gen_input_elt_id(name), array_index None as at line 179
gen_input_elt_id(name) == selsafe(name) \o <<"_input">>

\* ------------------------------------------------------------------ schemas

Tabs == {1, 2}
Fieldsets == {1, 2}

\* A third Tab object, made with the index and the htmlid of Tab 1:
\* Tab(htmlid="tab1") written out a second time.
TabTwin == 3

\* tab.htmlid
TabId(t) == IF t = 2 THEN "tab2" ELSE "tab1"

\* Tab and Fieldset objects: identity is the number, the sort key is (index, htmlid)
TabKey(t) ==
    IF t = 0 THEN <<0, 0, 0>>
    ELSE IF t = TabTwin THEN <<1, 1, 1>>
    ELSE <<1, t, t>>
FsetKey(f) == IF f = 0 THEN <<0, 0, 0>> ELSE <<1, f, f>>

Fld(k, typ, arr, val, len, tab, fset, exc, nw) ==
    [k |-> k, typ |-> typ, arr |-> arr, val |-> val, len |-> len,
     tab |-> tab, fset |-> fset, exc |-> exc, no_write |-> nw]

Prim(k) == Fld(k, 0, FALSE, "obj", 0, 0, 0, FALSE, FALSE)

\* One class of n primitive fields, every assignment of tab / fieldset / exc.
Ann == [tab : Tabs \cup {0}, fset : Fieldsets \cup {0}, exc : BOOLEAN]

GroupSchema(a) ==
    << [i \in 1..Len(a) |-> Fld(i, 0, FALSE, "obj", 0, a[i].tab, a[i].fset, a[i].exc, FALSE)] >>

\* Class ids: 1 is the root class R, 2 is K, 3 is E; typ 0 is a primitive type.
ArrVals == {<<"none", 0>>, <<"push", 0>>} \cup {<<"list", n>> : n \in 0..MaxLen}

\* R = [a, b: array of primitives, c]
ArraySchemas ==
    { << <<Prim(1), Fld(2, 0, TRUE, v[1], v[2], 0, 0, FALSE, nw), Prim(3)>> >>
      : v \in ArrVals, nw \in BOOLEAN }

\* R = [a: K, b];  K = [a, b: pushed arrays, both with fieldset g]
NestedSchemas ==
    { << <<Fld(1, 2, FALSE, "obj", 0, t, 0, FALSE, FALSE), Prim(2)>>,
         <<Fld(1, 0, TRUE, "push", 0, 0, g, FALSE, FALSE),
           Fld(2, 0, TRUE, "push", 0, 0, g, FALSE, FALSE)>> >>
      : t \in {0, 1}, g \in {0, 1} }

\* R = [a: array of E, b];  E = [a, b: pushed array]
ArrayOfComplexSchemas ==
    { << <<Fld(1, 3, TRUE, v[1], v[2], 0, 0, FALSE, nw), Prim(2)>>,
         <<>>,
         <<Prim(1), Fld(2, 0, TRUE, "push", 0, 0, 0, FALSE, FALSE)>> >>
      : v \in ArrVals, nw \in BOOLEAN }

\* R = [a, b: R]: a class with a field of its own type
CyclicSchemas ==
    { << <<Prim(1), Fld(2, 1, FALSE, v, 0, 0, 0, FALSE, FALSE)>> >> : v \in {"none", "obj"} }

\* R = [a, b, c], each with Tab 1 or its twin, and with or without a fieldset
TwinTabSchemas ==
    { << [i \in 1..3 |-> Fld(i, 0, FALSE, "obj", 0, a[i].tab, a[i].fset, FALSE, FALSE)] >>
      : a \in [1..3 -> [tab : {1, TabTwin}, fset : {0, 1}]] }

\* R = [e: K, e__e];  K = [e]          and          R = [K: K, a];  K = [a]
NameSchemas ==
    { << <<Fld(5, 2, FALSE, "obj", 0, 0, 0, FALSE, FALSE), Prim(6)>>, <<Prim(5)>> >>,
      << <<Fld(0, 2, FALSE, "obj", 0, 0, 0, FALSE, FALSE), Prim(1)>>, <<Prim(1)>> >> }

Schemas ==
    ArraySchemas \cup NestedSchemas \cup ArrayOfComplexSchemas \cup CyclicSchemas
        \cup TwinTabSchemas \cup NameSchemas

\* ------------------------------------------------------------------ the writer

Ev(op, elt, tag, fr, ann, key, top) ==
    [op |-> op, elt |-> elt, tag |-> tag, fr |-> fr, ann |-> ann, key |-> key, top |-> top]

Writer0 == [out |-> <<>>, stack |-> <<>>, next |-> 1]

\* the open event of element e
OpenEv(w, e) == CHOOSE x \in {w.out[j] : j \in 1..Len(w.out)} : x.op = "open" /\ x.elt = e

Without(s, e) == SelectSeq(s, LAMBDA x : x # e)

\* parent.element(tag, attrib).__enter__()
element(w, tag, fr, ann, key) ==
    [out |-> Append(w.out, Ev("open", w.next, tag, fr, ann, key, TRUE)),
     stack |-> Append(w.stack, w.next),
     next |-> w.next + 1]

\* ctx.__exit__(None, None, None); top records whether e was the innermost open element
exit(w, e) ==
    LET o == OpenEv(w, e)
    IN  [out |-> Append(w.out, Ev("close", e, o.tag, o.fr, o.ann, o.key,
                                  w.stack # <<>> /\ w.stack[Len(w.stack)] = e)),
         stack |-> Without(w.stack, e),
         next |-> w.next]

exit_if(w, e) == IF e # 0 THEN exit(w, e) ELSE w

\* parent.write(...)
write(w, tag, fr, ann, key) ==
    [out |-> Append(w.out, Ev("write", 0, tag, fr, ann, key, TRUE)),
     stack |-> w.stack,
     next |-> w.next]

\* ------------------------------------------------------------------ frames

Frame0 ==
    [id |-> 0, kind |-> "cm", cls |-> 0, inst |-> "none", name |-> <<>>,
     from_arr |-> FALSE, pc |-> "start",
     flds |-> <<>>, idx |-> 0, prev_tab |-> 0, prev_fset |-> 0,
     tab_ctx |-> 0, fset_ctx |-> 0, tabview_ctx |-> 0, outer |-> 0,
     typ |-> 0, key |-> <<>>, i |-> 0, n |-> 0, div |-> 0, cont |-> 0,
     no_write |-> FALSE, new_key |-> <<>>, keys |-> <<>>,
     child |-> 0, mark |-> 0, rx |-> <<>>, got |-> <<>>]

\* ------------------------------------------------------------------ sorting

\* the field's name alone as the sort key
form_key_by_name(f) == <<f.k>>

\* _Tform_key: (tab key, fieldset key, order, k); order is None for every field
form_key(f) == TabKey(f.tab) \o FsetKey(f.fset) \o <<0, f.k>>

LexLess(a, b) ==
    \E i \in 1..Len(a) : a[i] < b[i] /\ \A j \in 1..(i - 1) : a[j] = b[j]

\* sorted(fti.items(), key=_Tform_key(self))
sorted(fs) ==
    LET n == Len(fs)
        p == CHOOSE q \in [1..n -> 1..n] :
                 /\ \A i, j \in 1..n : i # j => q[i] # q[j]
                 /\ \A i \in 1..(n - 1) : LexLess(form_key(fs[q[i]]), form_key(fs[q[i + 1]]))
    IN  [i \in 1..n |-> fs[p[i]]]

\* ------------------------------------------------------------------ tab headers

\* the tabs of every field, excluded or not
header_tabs_with_excluded(fs) == {fs[i].tab : i \in {j \in 1..Len(fs) : fs[j].tab # 0}}

\* lines 464-469: the Tab objects (by identity) of the fields that are not excluded
header_tabs(fs) == {fs[i].tab : i \in {j \in 1..Len(fs) : fs[j].tab # 0 /\ ~fs[j].exc}}

\* lines 471-472: sorted by (index, htmlid); objects with equal keys in any order
sorted_tabs(T) ==
    CHOOSE q \in [1..Cardinality(T) -> T] :
        /\ \A i, j \in 1..Cardinality(T) : i # j => q[i] # q[j]
        /\ \A i \in 1..(Cardinality(T) - 1) : ~LexLess(TabKey(q[i + 1]), TabKey(q[i]))

RECURSIVE hrefs(_)
hrefs(q) == IF q = <<>> THEN <<>> ELSE <<"#", TabId(Head(q))>> \o hrefs(Tail(q))

\* _gen_tab_headers: the href of each entry, "#" + tab.htmlid, in order
gen_tab_headers(fs) == hrefs(sorted_tabs(header_tabs(fs)))

\* ------------------------------------------------------------------ to_parent

\* getattr(inst, k, None): only an object of the class has the field
getattr(inst, f) == IF inst = "obj" THEN f.val ELSE "none"

\* self.to_parent(ctx, cls, inst, parent, name, **kwargs), as HtmlForm sets it up:
\* use_global_null_handler is False (line 291), so a None instance is rendered by
\* the type's handler like any other; a type with max_occurs > 1 goes to
\* array_to_parent unless kwargs carry from_arr; serialization_handlers
\* (lines 267-278) send a primitive to a *_to_parent that writes one input and a
\* complex model to complex_model_to_parent.  co says a coroutine was created.
to_parent(w, caller, fid, typ, arr, nw, inst, len, name, from_arr) ==
    IF arr /\ ~from_arr
    THEN \* array_to_parent, lines 665-676
         LET key == selsafe(name)
             w1 == element(w, "container", fid, 0, key \o <<"_container">>)
         IN  [w |-> w1, co |-> TRUE,
              fr |-> [Frame0 EXCEPT !.id = fid,
                                    !.kind = IF inst = "push" THEN "push" ELSE "pull",
                                    !.typ = typ, !.inst = inst, !.name = name,
                                    !.n = IF inst = "list" THEN len ELSE 0,
                                    !.no_write = nw, !.cont = w.next]]
    ELSE IF typ = 0
    THEN [w |-> write(w, "input", caller, 0, name), co |-> FALSE, fr |-> Frame0]
    ELSE [w |-> w, co |-> TRUE,
          fr |-> [Frame0 EXCEPT !.id = fid, !.kind = "cm", !.cls = typ, !.inst = inst,
                                !.name = name, !.from_arr = kw_kept /\ from_arr]]

\* ------------------------------------------------------------------ control

Ctl(mode, d) == [mode |-> mode, d |-> d, val |-> <<0, "none">>, exc |-> "none"]
CtlSend(d, v) == [mode |-> "send", d |-> d, val |-> v, exc |-> "none"]
CtlRaise(d, e) == [mode |-> "raise", d |-> d, val |-> <<0, "none">>, exc |-> e]

Running(d) == ctl.mode = "run" /\ ctl.d = d /\ d \in 1..Len(stk)

SetFrame(d, fr) == [stk EXCEPT ![d] = fr]
PopTo(d) == SubSeq(stk, 1, d)

Forwarding == {"y559", "y603", "y650"}

\* The grouping schemas have primitive fields only: neither the instance nor
\* from_arr changes what is rendered for them.
Init ==
    /\ \/ /\ \E n \in 1..MaxFields : \E a \in [1..n -> Ann] : fti = GroupSchema(a)
          /\ root_inst = "obj"
          /\ kw_kept = TRUE
       \/ /\ fti \in Schemas
          /\ root_inst \in {"obj", "none"}
          /\ kw_kept \in BOOLEAN
    /\ stk = <<>>
    /\ ctl = Ctl("init", 0)
    /\ parent = Writer0
    /\ calls = 0
    /\ sent = <<>>

\* The caller serializes the root object: to_parent(ctx, cls, inst, parent, name)
\* with name the type's name.
Serialize ==
    /\ ctl.mode = "init"
    /\ LET r == to_parent(parent, 0, 1, 1, FALSE, FALSE, root_inst, 0, <<TypeName[1]>>, FALSE)
       IN  /\ stk' = <<r.fr>>
           /\ parent' = r.w
    /\ calls' = 1
    /\ ctl' = Ctl("run", 1)
    /\ UNCHANGED <<fti, root_inst, kw_kept, sent>>

\* --------------------------------------------------- complex_model_to_parent

\* lines 489-491
own_name(cls, name) == IF name = <<TypeName[cls]>> THEN <<>> ELSE name

\* lines 484-494: entry up to the loop
CM_Start ==
    \E d \in 1..Len(stk) :
        /\ Running(d)
        /\ stk[d].kind = "cm" /\ stk[d].pc = "start"
        /\ LET fr == stk[d]
               w1 == element(parent, "fieldset", fr.id, 0, fr.name)
               w2 == write(w1, "legend", fr.id, 0, <<TypeName[fr.cls]>>)
           IN  /\ parent' = w2
               /\ stk' = SetFrame(d, [fr EXCEPT !.name = own_name(fr.cls, fr.name),
                                                !.outer = parent.next,
                                                !.flds = sorted(fti[fr.cls]),
                                                !.idx = 1, !.pc = "field"])
        /\ UNCHANGED <<fti, root_inst, kw_kept, ctl, calls, sent>>

\* the tab transition without the reset of line 511
tab_transition_noreset(w, fr, tab) ==
    IF tab = fr.prev_tab THEN [w |-> w, fr |-> fr, err |-> FALSE]
    ELSE LET w1 == exit_if(w, fr.fset_ctx)
             w2 == exit_if(w1, fr.tab_ctx)
             w3 == IF fr.prev_tab = 0
                   THEN write(element(w2, "tabview", fr.id, 0, <<>>), "headers", fr.id, 0,
                              gen_tab_headers(fr.flds))
                   ELSE w2
             f1 == [fr EXCEPT !.fset_ctx = 0,
                              !.tabview_ctx = IF fr.prev_tab = 0 THEN w2.next ELSE @]
         IN  IF tab = 0
             THEN [w |-> w3, fr |-> f1, err |-> TRUE]
             ELSE [w |-> element(w3, "tab", fr.id, tab, <<TabId(tab)>>),
                   fr |-> [f1 EXCEPT !.tab_ctx = w3.next, !.prev_tab = tab],
                   err |-> FALSE]

\* lines 505-535: the tab of the field differs from the previous field's
tab_transition(w, fr, tab) ==
    IF tab = fr.prev_tab THEN [w |-> w, fr |-> fr, err |-> FALSE]
    ELSE LET w1 == exit_if(w, fr.fset_ctx)
             w2 == exit_if(w1, fr.tab_ctx)
             w3 == IF fr.prev_tab = 0
                   THEN write(element(w2, "tabview", fr.id, 0, <<>>), "headers", fr.id, 0,
                              gen_tab_headers(fr.flds))
                   ELSE w2
             f1 == [fr EXCEPT !.fset_ctx = 0, !.prev_fset = 0,
                              !.tabview_ctx = IF fr.prev_tab = 0 THEN w2.next ELSE @]
         IN  IF tab = 0
             THEN [w |-> w3, fr |-> f1, err |-> TRUE]     \* tab.htmlid of None
             ELSE [w |-> element(w3, "tab", fr.id, tab, <<TabId(tab)>>),
                   fr |-> [f1 EXCEPT !.tab_ctx = w3.next, !.prev_tab = tab],
                   err |-> FALSE]

\* lines 537-548: the fieldset of the field differs from the previous field's
fset_transition(w, fr, fset, k) ==
    IF fset = fr.prev_fset THEN [w |-> w, fr |-> fr, err |-> FALSE]
    ELSE LET w1 == exit_if(w, fr.fset_ctx)
         IN  IF fset = 0
             THEN [w |-> w1, fr |-> fr, err |-> TRUE]     \* fset.tag of None
             ELSE [w |-> write(element(w1, "group", fr.id, fset, <<>>),
                               "group_legend", fr.id, fset, <<>>),
                   fr |-> [fr EXCEPT !.fset_ctx = w1.next, !.prev_fset = fset],
                   err |-> FALSE]

\* lines 496-500: an excluded field is skipped
CM_Exclude ==
    \E d \in 1..Len(stk) :
        /\ Running(d)
        /\ stk[d].kind = "cm" /\ stk[d].pc = "field"
        /\ stk[d].idx <= Len(stk[d].flds)
        /\ stk[d].flds[stk[d].idx].exc
        /\ stk' = SetFrame(d, [stk[d] EXCEPT !.idx = @ + 1])
        /\ UNCHANGED <<fti, root_inst, kw_kept, ctl, parent, calls, sent>>

\* lines 502-548: the group transitions before a field is rendered
CM_Group ==
    \E d \in 1..Len(stk) :
        /\ Running(d)
        /\ stk[d].kind = "cm" /\ stk[d].pc = "field"
        /\ stk[d].idx <= Len(stk[d].flds)
        /\ ~stk[d].flds[stk[d].idx].exc
        /\ LET fr == stk[d]
               f == fr.flds[fr.idx]
               t == tab_transition(parent, fr, f.tab)
               g == IF t.err THEN t ELSE fset_transition(t.w, t.fr, f.fset, f.k)
           IN  IF g.err
               THEN \* AttributeError leaves through the with of line 493
                    /\ parent' = exit(g.w, fr.outer)
                    /\ stk' = PopTo(d - 1)
                    /\ ctl' = CtlRaise(d - 1, "AttributeError")
               ELSE /\ parent' = g.w
                    /\ stk' = SetFrame(d, [g.fr EXCEPT !.pc = "call"])
                    /\ ctl' = ctl
        /\ UNCHANGED <<fti, root_inst, kw_kept, calls, sent>>

\* lines 550-556: the field is rendered
CM_ToParent ==
    \E d \in 1..Len(stk) :
        /\ Running(d)
        /\ stk[d].kind = "cm" /\ stk[d].pc = "call"
        /\ LET fr == stk[d]
               f == fr.flds[fr.idx]
               r == to_parent(parent, fr.id, calls + 1, f.typ, f.arr, f.no_write,
                              getattr(fr.inst, f), f.len,
                              ChildKey(fr.name, FieldName(f.k)), fr.from_arr)
           IN  IF ~r.co
               THEN /\ parent' = r.w
                    /\ stk' = SetFrame(d, [fr EXCEPT !.idx = @ + 1, !.pc = "field"])
                    /\ ctl' = ctl
                    /\ calls' = calls
               ELSE IF Len(stk) >= MaxDepth
               THEN /\ ctl' = Ctl("overflow", d)
                    /\ UNCHANGED <<parent, stk, calls>>
               ELSE /\ parent' = r.w
                    /\ stk' = Append(SetFrame(d, [fr EXCEPT !.pc = "wait", !.child = r.fr.id,
                                                            !.rx = <<>>]), r.fr)
                    /\ ctl' = Ctl("run", d + 1)
                    /\ calls' = calls + 1
        /\ UNCHANGED <<fti, root_inst, kw_kept, sent>>

\* the closing sequence with the tab closed before the group fieldset
cm_close_tab_first(w, fr) ==
    LET w1 == exit_if(w, fr.tab_ctx)
        w2 == exit_if(w1, fr.fset_ctx)
        w3 == IF fr.tabview_ctx # 0
              THEN write(exit(w2, fr.tabview_ctx), "tabs_js", fr.id, 0, <<>>)
              ELSE w2
    IN  exit(w3, fr.outer)

\* lines 568-582 and the end of the with of line 493
cm_close(w, fr) ==
    LET w1 == exit_if(w, fr.fset_ctx)
        w2 == exit_if(w1, fr.tab_ctx)
        w3 == IF fr.tabview_ctx # 0
              THEN write(exit(w2, fr.tabview_ctx), "tabs_js", fr.id, 0, <<>>)
              ELSE w2
    IN  exit(w3, fr.outer)

CM_Close ==
    \E d \in 1..Len(stk) :
        /\ Running(d)
        /\ stk[d].kind = "cm" /\ stk[d].pc = "field"
        /\ stk[d].idx > Len(stk[d].flds)
        /\ parent' = cm_close(parent, stk[d])
        /\ stk' = PopTo(d - 1)
        /\ ctl' = Ctl("return", d - 1)
        /\ UNCHANGED <<fti, root_inst, kw_kept, calls, sent>>

\* --------------------------------------------------------------- arrays

\* the with of line 667 ends when array_to_parent returns to its caller
array_returns(w, fr) == exit_if(w, fr.cont)

\* lines 612-619 and 642-645: the add and delete buttons
buttons(w, fr) ==
    IF fr.no_write THEN w
    ELSE write(write(w, "btn_add", fr.id, 0, fr.key), "btn_del", fr.id, 0, fr.key)

\* _gen_array_js, guarded as in lines 621-622 and 658-659
gen_array_js(w, fr) ==
    IF fr.no_write THEN w ELSE write(w, "array_js", fr.id, 0, fr.key)

\* line 595
push_index(i) == i + 0

\* lines 591-593: the next round of the while loop, up to its yield
push_round(w, fr) ==
    [w |-> element(w, "elem", fr.id, 0, fr.key),
     fr |-> [fr EXCEPT !.div = w.next, !.pc = "y593"]]

\* lines 588-593: _push_to_parent runs to its first yield, and array_to_parent
\* returns the generator
Push_Start ==
    \E d \in 1..Len(stk) :
        /\ Running(d)
        /\ stk[d].kind = "push" /\ stk[d].pc = "start"
        /\ LET f0 == [stk[d] EXCEPT !.i = -1, !.key = selsafe(stk[d].name)]
               r == push_round(parent, f0)
           IN  /\ parent' = array_returns(r.w, r.fr)
               /\ stk' = SetFrame(d, [r.fr EXCEPT !.cont = 0])
        /\ ctl' = Ctl("yield", d - 1)
        /\ UNCHANGED <<fti, root_inst, kw_kept, calls, sent>>

\* lines 593-600: a value arrives at the yield of line 593
Push_Recv ==
    \E d \in 1..Len(stk) :
        /\ ctl.mode = "send" /\ ctl.d = d
        /\ stk[d].kind = "push" /\ stk[d].pc = "y593"
        /\ LET i1 == push_index(stk[d].i)
               fr == [stk[d] EXCEPT !.got = Append(@, ctl.val), !.i = i1,
                                    !.new_key = ElemKey(stk[d].key, i1),
                                    !.keys = Append(@, ElemKey(stk[d].key, i1))]
               r == to_parent(parent, fr.id, calls + 1, fr.typ, TRUE, FALSE,
                              ctl.val[2], 0, fr.new_key, TRUE)
           IN  IF ~r.co
               THEN LET n == push_round(exit(r.w, fr.div), fr)
                    IN  /\ parent' = n.w
                        /\ stk' = SetFrame(d, n.fr)
                        /\ ctl' = Ctl("yield", d - 1)
                        /\ calls' = calls
               ELSE IF Len(stk) >= MaxDepth
               THEN /\ ctl' = Ctl("overflow", d)
                    /\ UNCHANGED <<parent, stk, calls>>
               ELSE /\ parent' = r.w
                    /\ stk' = Append(SetFrame(d, [fr EXCEPT !.pc = "wait", !.child = r.fr.id,
                                                            !.rx = <<>>]), r.fr)
                    /\ ctl' = Ctl("run", d + 1)
                    /\ calls' = calls + 1
        /\ UNCHANGED <<fti, root_inst, kw_kept, sent>>

\* line 593: a Break arrives at the yield of line 593, outside any try
Push_Break ==
    \E d \in 1..Len(stk) :
        /\ ctl.mode = "throw" /\ ctl.d = d
        /\ stk[d].kind = "push" /\ stk[d].pc = "y593"
        /\ parent' = exit(parent, stk[d].div)
        /\ stk' = PopTo(d - 1)
        /\ ctl' = CtlRaise(d - 1, "Break")
        /\ UNCHANGED <<fti, root_inst, kw_kept, calls, sent>>

\* lines 628-632
Pull_Start ==
    \E d \in 1..Len(stk) :
        /\ Running(d)
        /\ stk[d].kind = "pull" /\ stk[d].pc = "start"
        /\ stk' = SetFrame(d, [stk[d] EXCEPT !.key = selsafe(stk[d].name), !.i = 0,
                                             !.pc = "elem"])
        /\ UNCHANGED <<fti, root_inst, kw_kept, ctl, parent, calls, sent>>

\* lines 634-647: one element of the list
Pull_Elem ==
    \E d \in 1..Len(stk) :
        /\ Running(d)
        /\ stk[d].kind = "pull" /\ stk[d].pc = "elem"
        /\ stk[d].i < stk[d].n
        /\ LET f0 == [stk[d] EXCEPT !.new_key = ElemKey(stk[d].key, stk[d].i),
                                    !.keys = Append(@, ElemKey(stk[d].key, stk[d].i))]
               w1 == element(parent, "elem", f0.id, 0, f0.key)
               fr == [f0 EXCEPT !.div = parent.next]
               r == to_parent(w1, fr.id, calls + 1, fr.typ, TRUE, FALSE,
                              "obj", 0, fr.new_key, TRUE)
           IN  IF ~r.co
               THEN /\ parent' = exit(buttons(r.w, fr), fr.div)
                    /\ stk' = SetFrame(d, [fr EXCEPT !.i = @ + 1, !.div = 0])
                    /\ ctl' = ctl
                    /\ calls' = calls
               ELSE IF Len(stk) >= MaxDepth
               THEN /\ ctl' = Ctl("overflow", d)
                    /\ UNCHANGED <<parent, stk, calls>>
               ELSE /\ parent' = r.w
                    /\ stk' = Append(SetFrame(d, [fr EXCEPT !.pc = "wait", !.child = r.fr.id,
                                                            !.rx = <<>>]), r.fr)
                    /\ ctl' = Ctl("run", d + 1)
                    /\ calls' = calls + 1
        /\ UNCHANGED <<fti, root_inst, kw_kept, sent>>

\* lines 658-659: after the last element; array_to_parent returns when the
\* coroutine ends before it ever yielded
Pull_End ==
    \E d \in 1..Len(stk) :
        /\ Running(d)
        /\ stk[d].kind = "pull" /\ stk[d].pc = "elem"
        /\ stk[d].i >= stk[d].n
        /\ parent' = array_returns(gen_array_js(parent, stk[d]), stk[d])
        /\ stk' = PopTo(d - 1)
        /\ ctl' = Ctl("return", d - 1)
        /\ UNCHANGED <<fti, root_inst, kw_kept, calls, sent>>

\* ------------------------------------------------- the forwarding loops

\* the yield a frame of this kind forwards from
YieldPc(kind) == IF kind = "cm" THEN "y559" ELSE IF kind = "push" THEN "y603" ELSE "y650"

\* ret.send(None) in place of ret.send(y)
ret_send_none(y) == <<0, "none">>

\* lines 559-560, 603-604, 650-651: what ret.send is given for a received y
ret_send(y) == y

\* y = (yield); ret.send(y)
Forward ==
    \E d \in 1..Len(stk) :
        /\ ctl.mode = "send" /\ ctl.d = d
        /\ stk[d].pc \in Forwarding
        /\ d < Len(stk)
        /\ stk' = SetFrame(d, [stk[d] EXCEPT !.got = Append(@, ctl.val),
                                             !.rx = Append(@, ctl.val),
                                             !.pc = "in_send"])
        /\ ctl' = CtlSend(d + 1, ret_send(ctl.val))
        /\ UNCHANGED <<fti, root_inst, kw_kept, parent, calls, sent>>

\* except Break as b: ret.throw(b)   (lines 562-564, 605-607, 652-654)
ForwardBreak ==
    \E d \in 1..Len(stk) :
        /\ ctl.mode = "throw" /\ ctl.d = d
        /\ stk[d].pc \in Forwarding
        /\ d < Len(stk)
        /\ stk' = SetFrame(d, [stk[d] EXCEPT !.pc = "in_throw"])
        /\ ctl' = Ctl("throw", d + 1)
        /\ UNCHANGED <<fti, root_inst, kw_kept, parent, calls, sent>>

\* What a frame does once the child it was suspended on is over (the child
\* raised StopIteration into ret.throw, lines 565-566 / 608-619 / 655-656) or
\* ret.throw returned because the child yielded again: the frame leaves its
\* except clause.  A frame left suspended is dropped from the chain with its
\* elements still open.
after_break(w, fr) ==
    IF fr.kind = "cm"
    THEN [w |-> w, fr |-> [fr EXCEPT !.idx = @ + 1, !.pc = "field"], yields |-> FALSE]
    ELSE IF fr.kind = "pull"
    THEN [w |-> exit(w, fr.div),
          fr |-> [fr EXCEPT !.i = @ + 1, !.div = 0, !.pc = "elem"], yields |-> FALSE]
    ELSE LET r == push_round(exit(buttons(w, fr), fr.div), fr)
         IN  [w |-> r.w, fr |-> r.fr, yields |-> TRUE]

\* What a frame does when the to_parent it called returned None (the coroutine
\* decorator returns None for a generator that ended before it yielded).
after_none(w, fr) ==
    IF fr.kind = "cm"
    THEN [w |-> w, fr |-> [fr EXCEPT !.idx = @ + 1, !.pc = "field"], yields |-> FALSE]
    ELSE IF fr.kind = "pull"
    THEN [w |-> exit(buttons(w, fr), fr.div),
          fr |-> [fr EXCEPT !.i = @ + 1, !.div = 0, !.pc = "elem"], yields |-> FALSE]
    ELSE LET r == push_round(exit(w, fr.div), fr)
         IN  [w |-> r.w, fr |-> r.fr, yields |-> TRUE]

\* the with blocks an exception leaves through: line 493; lines 592 / 636 and 667
unwind(w, fr) ==
    IF fr.kind = "cm" THEN exit(w, fr.outer)
    ELSE array_returns(exit_if(w, fr.div), fr)

\* The child of frame d suspended at a yield, and control is back in frame d.
ChildYielded ==
    \E d \in 1..Len(stk) :
        /\ ctl.mode = "yield" /\ ctl.d = d
        /\ LET fr == stk[d]
           IN  IF fr.pc = "wait"
               THEN \* isgenerator(ret): the frame goes to its own yield
                    LET w1 == IF fr.kind = "pull" THEN array_returns(buttons(parent, fr), fr)
                              ELSE parent
                    IN  /\ parent' = w1
                        /\ stk' = SetFrame(d, [fr EXCEPT !.pc = YieldPc(fr.kind), !.cont = 0,
                                                         !.mark = Len(w1.out)])
                        /\ ctl' = Ctl("yield", d - 1)
               ELSE IF fr.pc = "in_send"
               THEN \* ret.send returned: while True, the next yield
                    /\ parent' = parent
                    /\ stk' = SetFrame(d, [fr EXCEPT !.pc = YieldPc(fr.kind)])
                    /\ ctl' = Ctl("yield", d - 1)
               ELSE \* ret.throw returned: no StopIteration, the except clause ends
                    LET r == after_break(parent, fr)
                    IN  /\ parent' = r.w
                        /\ stk' = SetFrame(d, r.fr)
                        /\ ctl' = IF r.yields THEN Ctl("yield", d - 1) ELSE Ctl("run", d)
        /\ UNCHANGED <<fti, root_inst, kw_kept, calls, sent>>

\* The child of frame d ended (StopIteration), and control is back in frame d.
ChildReturned ==
    \E d \in 1..Len(stk) :
        /\ ctl.mode = "return" /\ ctl.d = d
        /\ LET fr == stk[d]
           IN  IF fr.pc = "in_send"
               THEN \* StopIteration out of ret.send is not caught: it ends this
                    \* generator too
                    /\ parent' = unwind(parent, fr)
                    /\ stk' = PopTo(d - 1)
                    /\ ctl' = Ctl("return", d - 1)
               ELSE LET r == IF fr.pc = "wait" THEN after_none(parent, fr)
                             ELSE after_break(parent, fr)
                    IN  /\ parent' = r.w
                        /\ stk' = SetFrame(d, r.fr)
                        /\ ctl' = IF r.yields THEN Ctl("yield", d - 1) ELSE Ctl("run", d)
        /\ UNCHANGED <<fti, root_inst, kw_kept, calls, sent>>

\* An exception came out of the child of frame d: nothing in frame d catches a
\* Break raised by ret.throw inside the except clause (only StopIteration), nor
\* any other exception, so it leaves through the frame's with blocks.
Propagate ==
    \E d \in 1..Len(stk) :
        /\ ctl.mode = "raise" /\ ctl.d = d
        /\ parent' = unwind(parent, stk[d])
        /\ stk' = PopTo(d - 1)
        /\ ctl' = CtlRaise(d - 1, ctl.exc)
        /\ UNCHANGED <<fti, root_inst, kw_kept, calls, sent>>

\* ------------------------------------------------------------ the driver

Idle == ctl.mode = "yield" /\ ctl.d = 0
Done == ctl.mode = "return" /\ ctl.d = 0
Broke == ctl.mode = "raise" /\ ctl.d = 0

\* the caller pushes a value into the suspended root: ret.send(v)
DriverSend ==
    /\ Idle
    /\ Len(sent) < MaxSends
    /\ \E kind \in {"obj", "none"} :
        LET v == <<Len(sent) + 1, kind>>
        IN  /\ sent' = Append(sent, v)
            /\ ctl' = CtlSend(1, v)
    /\ UNCHANGED <<fti, root_inst, kw_kept, stk, parent, calls>>

\* the caller ends the stream: ret.throw(Break())
DriverThrow ==
    /\ Idle
    /\ ctl' = Ctl("throw", 1)
    /\ UNCHANGED <<fti, root_inst, kw_kept, stk, parent, calls, sent>>

Next ==
    \/ Serialize
    \/ CM_Start
    \/ CM_Exclude
    \/ CM_Group
    \/ CM_ToParent
    \/ CM_Close
    \/ Push_Start
    \/ Push_Recv
    \/ Push_Break
    \/ Pull_Start
    \/ Pull_Elem
    \/ Pull_End
    \/ Forward
    \/ ForwardBreak
    \/ ChildYielded
    \/ ChildReturned
    \/ Propagate
    \/ DriverSend
    \/ DriverThrow

Spec == Init /\ [][Next]_vars

\* ================================================================== claims

Out == parent.out
Events == 1..Len(Out)
IsOpen(e) == \E j \in 1..Len(parent.stack) : parent.stack[j] = e
Opens(tag) == {j \in Events : Out[j].op = "open" /\ Out[j].tag = tag}
\* the elements with this tag that frame fid opened and that are open now
OpenElts(fid, tag) == {j \in Opens(tag) : Out[j].fr = fid /\ IsOpen(Out[j].elt)}
Closes(e) == {j \in Events : Out[j].op = "close" /\ Out[j].elt = e}
CMTags == {"fieldset", "tabview", "tab", "group"}

\* C1: whenever complex_model_to_parent is about to call to_parent for a
\* non-excluded field, exactly the tab element opened for the field's tab is open
\* (none if the field has no tab) and exactly the group fieldset opened for the
\* field's fieldset is open (none if it has none), the group inside the tab.
C1_GroupingContext ==
    \A d \in 1..Len(stk) :
        (stk[d].kind = "cm" /\ stk[d].pc = "call") =>
            LET f == stk[d].flds[stk[d].idx]
                T == OpenElts(stk[d].id, "tab")
                G == OpenElts(stk[d].id, "group")
            IN  /\ ~f.exc
                /\ Cardinality(T) = (IF f.tab = 0 THEN 0 ELSE 1)
                /\ Cardinality(G) = (IF f.fset = 0 THEN 0 ELSE 1)
                /\ \A j \in T : Out[j].ann = f.tab
                /\ \A j \in G : Out[j].ann = f.fset
                /\ \A j \in T : \A g \in G : j < g

\* a field with a tab and a fieldset is about to be rendered right after a field
\* of another tab with the same fieldset
C1_Witness ==
    \E d \in 1..Len(stk) :
        /\ stk[d].kind = "cm" /\ stk[d].pc = "call" /\ stk[d].idx >= 2
        /\ LET f == stk[d].flds[stk[d].idx]
               p == stk[d].flds[stk[d].idx - 1]
           IN  /\ f.tab # 0 /\ f.fset # 0
               /\ ~p.exc /\ p.tab # 0 /\ p.tab # f.tab /\ p.fset = f.fset

\* no field value of the schema is a PushBase: nothing suspends
NoPush == \A c \in 1..Len(fti) : \A i \in 1..Len(fti[c]) : fti[c][i].val # "push"

\* C2: when no field suspends, every element complex_model_to_parent opened is
\* closed while it is the innermost open element, never closed twice, and closed
\* exactly once when the rendering has completed.
C2_LifoClose ==
    NoPush =>
        /\ \A j \in Events :
               (Out[j].op = "close" /\ Out[j].tag \in CMTags) => Out[j].top
        /\ \A j \in Events :
               (Out[j].op = "open" /\ Out[j].tag \in CMTags) =>
                   /\ Cardinality(Closes(Out[j].elt)) <= 1
                   /\ Done => Cardinality(Closes(Out[j].elt)) = 1
        /\ Done => parent.stack = <<>>

\* a rendering completed that opened a tabview, two tabs and a group fieldset
C2_Witness ==
    /\ Done /\ NoPush
    /\ Cardinality(Opens("tab")) = 2
    /\ Opens("group") # {}
    /\ Opens("tabview") # {}

\* the nine digit decimal numeral of i, for i < 10
NineDigits(i) == [j \in 1..9 |-> IF j = 9 THEN Digit[i + 1] ELSE "0"]

\* the length of the list handed to the pull frame at depth d: its caller is a
\* complex model rendering field flds[idx]
ListLen(d) ==
    LET f == stk[d - 1].flds[stk[d - 1].idx]
    IN  IF getattr(stk[d - 1].inst, f) = "list" THEN f.len ELSE 0

\* C3: _pull_to_parent renders its i-th element under selsafe(name)[i as nine
\* digits], the keys are pairwise distinct, there is one element div per key,
\* and past the last element there are as many as the list is long (none for
\* None).
C3_PullKeys ==
    \A d \in 2..Len(stk) :
        stk[d].kind = "pull" =>
            LET fr == stk[d]
            IN  /\ \A j \in 1..Len(fr.keys) :
                       fr.keys[j] = selsafe(fr.name) \o <<"[">> \o NineDigits(j - 1) \o <<"]">>
                /\ \A j, k \in 1..Len(fr.keys) : j # k => fr.keys[j] # fr.keys[k]
                /\ Cardinality({j \in Opens("elem") : Out[j].fr = fr.id}) = Len(fr.keys)
                /\ (fr.pc = "elem" /\ fr.i >= fr.n) => Len(fr.keys) = ListLen(d)

\* a pull array is past the last of at least two elements
C3_Witness ==
    \E d \in 2..Len(stk) :
        /\ stk[d].kind = "pull" /\ stk[d].pc = "elem" /\ stk[d].i >= stk[d].n
        /\ Len(stk[d].keys) >= 2
        /\ ListLen(d) = Len(stk[d].keys)

\* C4: _push_to_parent renders the k-th pushed value (k = 0, 1, ...) under
\* selsafe(name)[k as nine digits], so pushed elements get distinct keys.
C4_PushKeys ==
    \A d \in 1..Len(stk) :
        stk[d].kind = "push" =>
            /\ \A j \in 1..Len(stk[d].keys) :
                   stk[d].keys[j] =
                       selsafe(stk[d].name) \o <<"[">> \o NineDigits(j - 1) \o <<"]">>
            /\ \A j, k \in 1..Len(stk[d].keys) : j # k => stk[d].keys[j] # stk[d].keys[k]

\* what frame fid did, element by element: the <<op, tag>> of its events, the
\* container of array_to_parent left out
Shape(fid) ==
    LET mine == SelectSeq(Out, LAMBDA e : e.fr = fid /\ e.tag # "container")
    IN  [j \in 1..Len(mine) |-> <<mine[j].op, mine[j].tag>>]

RECURSIVE Repeat(_, _)
Repeat(s, n) == IF n = 0 THEN <<>> ELSE s \o Repeat(s, n - 1)

\* the events of an array of n primitive values as the claim has them: per value a
\* div holding the input and, unless no_write, the two buttons; then the script
\* once, unless no_write
ArrayShape(n, nw) ==
    Repeat(<< <<"open", "elem">>, <<"write", "input">> >>
           \o (IF nw THEN <<>> ELSE << <<"write", "btn_add">>, <<"write", "btn_del">> >>)
           \o << <<"close", "elem">> >>, n)
    \o (IF nw THEN <<>> ELSE << <<"write", "array_js">> >>)

\* the array of primitives that the complex model frame at depth d is rendering
ArrayField(d, val) ==
    /\ stk[d].kind = "cm" /\ stk[d].idx \in 1..Len(stk[d].flds)
    /\ LET f == stk[d].flds[stk[d].idx]
       IN  f.arr /\ f.typ = 0 /\ ~stk[d].from_arr /\ getattr(stk[d].inst, f) = val

\* _pull_to_parent does emit ArrayShape: checked when the coroutine has ended
PullShapeHolds ==
    \A d \in 1..Len(stk) :
        (Len(stk) = d /\ ctl.mode = "return" /\ ctl.d = d /\ stk[d].pc = "wait"
           /\ (ArrayField(d, "list") \/ ArrayField(d, "none"))) =>
            Shape(stk[d].child) = ArrayShape(ListLen(d + 1), stk[d].flds[stk[d].idx].no_write)

\* C5: once its stream is ended by a Break, _push_to_parent has emitted for the
\* values it was sent what _pull_to_parent emits for a list of them.
C5_PushMatchesPull ==
    \A d \in 1..Len(stk) :
        (Len(stk) = d /\ stk[d].pc = "in_throw" /\ ArrayField(d, "push")) =>
            Shape(stk[d].child) = ArrayShape(Len(stk[d].rx), stk[d].flds[stk[d].idx].no_write)

\* the instance is None or a finite object graph: no field of a class's own type
\* holds an object (all instances of a class are alike, so one that did would
\* hold itself without end)
FiniteInstance ==
    \/ root_inst = "none"
    \/ \A c \in 1..Len(fti) : \A i \in 1..Len(fti[c]) :
           fti[c][i].typ = c => fti[c][i].val # "obj"

\* C6: for None or a finite object graph the tree walk terminates.  The walk of
\* a class is the same for every None instance, so a frame rendering None for a
\* class inside another frame rendering None for the same class repeats without
\* end; and the nesting never runs past the depth explored.
C6_TreeWalkTerminates ==
    FiniteInstance =>
        /\ ctl.mode # "overflow"
        /\ \A i, j \in 1..Len(stk) :
               (i < j /\ stk[i].kind = "cm" /\ stk[j].kind = "cm"
                  /\ stk[i].cls = stk[j].cls) =>
                   ~(stk[i].inst = "none" /\ stk[j].inst = "none")

\* C7: the container div of an array is closed only after every element div of
\* the array was opened and closed.
C7_ContainerEncloses ==
    \A c \in Events :
        (Out[c].op = "close" /\ Out[c].tag = "container") =>
            \A e \in Opens("elem") :
                Out[e].fr = Out[c].fr =>
                    /\ e < c
                    /\ \E k \in Closes(Out[e].elt) : k < c

\* the frame that opened element e
Owner(e) == OpenEv(parent, e).fr

\* C8: when a Break thrown into a suspended complex model or pull frame comes
\* back from the child, the frame closes an element of its own only if every
\* element opened by the frames below it is closed.
C8_ParentWaitsForChild ==
    [][ ( /\ ctl.mode = "raise" /\ ctl.exc = "Break"
          /\ ctl.d \in 1..Len(stk)
          /\ stk[ctl.d].kind \in {"cm", "pull"}
          /\ parent'.out # parent.out )
        => \A j \in 1..Len(parent.stack) : Owner(parent.stack[j]) <= stk[ctl.d].id ]_vars

\* C9: a Break thrown into a complex model frame suspended on a child is consumed
\* by the child: it comes back neither out of ret.throw nor out of the root.
C9_BreakConsumed ==
    ~( /\ ctl.mode = "raise" /\ ctl.exc = "Break"
       /\ (ctl.d = 0 \/ (ctl.d \in 1..Len(stk) /\ stk[ctl.d].kind = "cm")) )

IsPrefix(p, q) == Len(p) <= Len(q) /\ SubSeq(q, 1, Len(p)) = p

\* event e is written for field f of frame fr: its key starts with the field's
\* hierarchical name, or with what selsafe makes of it
ForField(e, fr, f) ==
    LET ck == ChildKey(fr.name, FieldName(f.k))
    IN  IsPrefix(ck, e.key) \/ IsPrefix(selsafe(ck), e.key)

\* C10: a complex model frame suspended on a child stays on that child; when the
\* chain is at rest the child has received exactly the values the frame received
\* since it suspended on it, in order (for the root: the values the driver sent);
\* and since it suspended, the frame has written nothing and nothing was written
\* for a field that comes after the child's.
C10_Forwarding ==
    \A d \in 1..Len(stk) :
        (stk[d].kind = "cm" /\ stk[d].pc \in {"y559", "in_send"}) =>
            /\ d < Len(stk)
            /\ stk[d + 1].id = stk[d].child
            /\ Idle => stk[d].rx = stk[d + 1].got
            /\ (Idle /\ d = 1) => stk[d].rx = sent
            /\ \A j \in Events :
                   j > stk[d].mark =>
                       /\ Out[j].fr # stk[d].id
                       /\ \A i \in (stk[d].idx + 1)..Len(stk[d].flds) :
                              ~ForField(Out[j], stk[d], stk[d].flds[i])

\* at rest after two sends, through a complex model nested in a complex model
C10_Witness ==
    /\ Idle /\ Len(sent) >= 2 /\ Len(stk) >= 3
    /\ stk[1].kind = "cm" /\ stk[2].kind = "cm"
    /\ stk[1].pc = "y559" /\ stk[2].pc = "y559"
    /\ stk[2].rx = sent /\ stk[3].got = sent
    /\ Len(Out) > stk[1].mark

\* the tab panels frame fid opened, in order, and the header lists it wrote
TabOpens(fid) == SelectSeq(Out, LAMBDA e : e.op = "open" /\ e.tag = "tab" /\ e.fr = fid)
Headers(fid) == SelectSeq(Out, LAMBDA e : e.tag = "headers" /\ e.fr = fid)

\* C11: the panels a complex model has opened are panels of pairwise distinct Tab
\* objects, in ascending (index, htmlid) order, and the k-th panel's id is what
\* the k-th header entry refers to; when the root has completed, the panels are
\* those of exactly the tabs of its non-excluded fields and there are as many
\* header entries as panels.
C11_TabHeaders ==
    \A fid \in 1..calls :
        LET P == TabOpens(fid)
            H == Headers(fid)
        IN  /\ \A i, j \in 1..Len(P) : i # j => P[i].ann # P[j].ann
            /\ \A k \in 1..(Len(P) - 1) : ~LexLess(TabKey(P[k + 1].ann), TabKey(P[k].ann))
            /\ P # <<>> =>
                   /\ Len(H) = 1
                   /\ 2 * Len(P) <= Len(H[1].key)
                   /\ \A k \in 1..Len(P) :
                          /\ H[1].key[2 * k - 1] = "#"
                          /\ H[1].key[2 * k] = P[k].key[1]
            /\ (Done /\ fid = 1) =>
                   /\ {P[k].ann : k \in 1..Len(P)} = header_tabs(fti[1])
                   /\ H # <<>> => Len(H[1].key) = 2 * Len(P)

\* no two Tab objects of the schema have the same (index, htmlid)
DistinctTabKeys ==
    \A c \in 1..Len(fti) : \A i \in 1..Len(fti[c]) : fti[c][i].tab # TabTwin

\* the headers do match the panels when the Tab objects have distinct keys
TabHeadersHoldForDistinctKeys == DistinctTabKeys => C11_TabHeaders

\* the events of frame fid with this op and tag, by position in the output
EvIdx(fid, op, tag) ==
    {j \in Events : Out[j].fr = fid /\ Out[j].op = op /\ Out[j].tag = tag}

\* the rendering of frame fid is over: it started and is no longer in the chain
Ended(fid) == fid \in 1..calls /\ \A d \in 1..Len(stk) : stk[d].id # fid

\* C12: per complex model the tabview is opened at most once, together with a
\* panel (so only for a field that has a tab); the headers are written once,
\* right after it opens; every panel is opened after the tabview opens and, if
\* the tabview is closed, opened and closed before that; a field without a tab
\* is rendered while the model has opened no tabview; the tabs() script is
\* written only right after the tabview closes, and once the model's rendering
\* is over a tabview it opened has been closed and the script written once.
C12_Tabview ==
    \A fid \in 1..calls :
        LET TV == EvIdx(fid, "open", "tabview")
            TC == EvIdx(fid, "close", "tabview")
            HD == EvIdx(fid, "write", "headers")
            JS == EvIdx(fid, "write", "tabs_js")
            PO == EvIdx(fid, "open", "tab")
        IN  /\ Cardinality(TV) <= 1
            /\ Cardinality(HD) = Cardinality(TV)
            /\ \A j \in TV :
                   /\ j + 1 \in HD
                   /\ j + 2 \in PO /\ Out[j + 2].ann # 0
            /\ \A p \in PO :
                   /\ \E j \in TV : j < p
                   /\ \A c \in TC : p < c /\ \E k \in Closes(Out[p].elt) : k < c
            /\ \A d \in 1..Len(stk) :
                   (stk[d].id = fid /\ stk[d].kind = "cm" /\ stk[d].pc = "call"
                      /\ stk[d].flds[stk[d].idx].tab = 0) => TV = {}
            /\ \A j \in JS : j - 1 \in TC
            /\ \A c \in TC : c + 1 \in JS
            /\ Ended(fid) => /\ Cardinality(TC) = Cardinality(TV)
                              /\ Cardinality(JS) = Cardinality(TV)

\* the tabview is handled as stated in every rendering no Break was thrown into
TabviewHoldsWithoutBreak == ctl.exc # "Break" => C12_Tabview

\* frame d is at a field marked exc
AtExcluded(d) ==
    /\ Running(d) /\ stk[d].kind = "cm" /\ stk[d].pc = "field"
    /\ stk[d].idx <= Len(stk[d].flds)
    /\ stk[d].flds[stk[d].idx].exc

\* the grouping state of a complex model frame
Grouping(fr) == <<fr.prev_tab, fr.prev_fset, fr.tab_ctx, fr.fset_ctx, fr.tabview_ctx>>

\* the htmlids of the tabs that the non-excluded fields of fs use
UsedTabIds(fs) == {TabId(fs[i].tab) : i \in {j \in 1..Len(fs) : fs[j].tab # 0 /\ ~fs[j].exc}}

\* C13: the step over an excluded field writes, opens and closes nothing and
\* leaves the frame's grouping state as it was; nothing in the output is for an
\* excluded field; and every entry of a header list refers to a tab that a
\* non-excluded field uses.
C13_ExcludedFrame ==
    /\ [][ \A d \in 1..Len(stk) :
               AtExcluded(d) =>
                   /\ parent' = parent
                   /\ Len(stk') = Len(stk)
                   /\ Grouping(stk'[d]) = Grouping(stk[d])
                   /\ stk'[d].idx = stk[d].idx + 1 ]_vars
    /\ [](\A d \in 1..Len(stk) :
              stk[d].kind = "cm" =>
                  /\ \A i \in 1..Len(stk[d].flds) :
                         stk[d].flds[i].exc =>
                             \A j \in Events : ~ForField(Out[j], stk[d], stk[d].flds[i])
                  /\ \A j \in EvIdx(stk[d].id, "write", "headers") :
                         \A k \in 1..Len(Out[j].key) :
                             Out[j].key[k] = "#" \/ Out[j].key[k] \in UsedTabIds(stk[d].flds))

\* a model is past an excluded field that has Tab 2, has written its headers and
\* rendered a field of Tab 1, and no other field has Tab 2
C13_Witness ==
    \E d \in 1..Len(stk) :
        /\ stk[d].kind = "cm" /\ stk[d].pc = "field" /\ stk[d].idx > Len(stk[d].flds)
        /\ EvIdx(stk[d].id, "write", "headers") # {}
        /\ \E i \in 1..Len(stk[d].flds) : stk[d].flds[i].exc /\ stk[d].flds[i].tab = 2
        /\ \A i \in 1..Len(stk[d].flds) : stk[d].flds[i].tab = 2 => stk[d].flds[i].exc
        /\ \E i \in 1..Len(stk[d].flds) : ~stk[d].flds[i].exc /\ stk[d].flds[i].tab = 1

\* C14: no AttributeError comes out of a group transition, no tab or group
\* element is ever opened for a None annotation, and in the order a complex
\* model renders its fields in, a field without a tab never follows a field
\* with one, and within one tab a field without a fieldset never follows a
\* field with one.
C14_NoneAnnotations ==
    /\ ctl.exc # "AttributeError"
    /\ \A j \in Events :
           (Out[j].op = "open" /\ Out[j].tag \in {"tab", "group"}) => Out[j].ann # 0
    /\ \A d \in 1..Len(stk) :
           stk[d].kind = "cm" =>
               \A i, j \in 1..Len(stk[d].flds) :
                   i < j =>
                       LET f == stk[d].flds[i]
                           g == stk[d].flds[j]
                       IN  /\ f.tab # 0 => g.tab # 0
                           /\ (f.tab = g.tab /\ f.fset # 0) => g.fset # 0

\* a model has rendered, in this order, the field declared last, which has no
\* tab, a field with a tab and no fieldset, and a field of the same tab with a
\* fieldset
C14_Witness ==
    \E d \in 1..Len(stk) :
        /\ stk[d].kind = "cm" /\ stk[d].pc = "field"
        /\ Len(stk[d].flds) = 3 /\ stk[d].idx > 3
        /\ \A i \in 1..3 : ~stk[d].flds[i].exc
        /\ stk[d].flds[1].tab = 0 /\ stk[d].flds[1].k = 3
        /\ stk[d].flds[2].tab # 0 /\ stk[d].flds[2].fset = 0
        /\ stk[d].flds[3].tab = stk[d].flds[2].tab /\ stk[d].flds[3].fset # 0

\* the inputs written so far, by position in the output
Inputs == {j \in Events : Out[j].op = "write" /\ Out[j].tag = "input"}

\* C15: two inputs rendered under distinct names have distinct ids.
C15_DistinctIds ==
    \A i, j \in Inputs :
        Out[i].key # Out[j].key =>
            gen_input_elt_id(Out[i].key) # gen_input_elt_id(Out[j].key)

\* frame d is a complex model rendering its current field
AtField(d) == stk[d].kind = "cm" /\ stk[d].pc \notin {"start", "field"}

\* the names of the fields the frames 1..d are at, joined by the delimiter
RECURSIVE JoinPath(_)
JoinPath(d) ==
    LET k == FieldName(stk[d].flds[stk[d].idx].k)
    IN  IF d = 1 THEN k ELSE JoinPath(d - 1) \o <<hier_delim>> \o k

\* C16: the name a complex model passes down for the field it is rendering, at
\* nesting depth d below the root through complex models only, is made of the d
\* field names on the path, in order, joined by hier_delim.
C16_PathNames ==
    \A d \in 1..Len(stk) :
        (\A i \in 1..d : AtField(i)) =>
            ChildKey(stk[d].name, FieldName(stk[d].flds[stk[d].idx].k)) = JoinPath(d)

\* no field is called like the type it has
NoTypeNamedField ==
    \A c \in 1..Len(fti) : \A i \in 1..Len(fti[c]) :
        fti[c][i].typ # 0 => FieldName(fti[c][i].k) # <<TypeName[fti[c][i].typ]>>

\* the names are the paths when no field is called like its type
PathNamesHoldWithoutTypeNamedField == NoTypeNamedField => C16_PathNames

====
